---- MODULE Spec2Model ----
(***************************************************************************)
(* A model of src/src/game.cpp: the map storage (MapManager), the entity   *)
(* animation state (GameObject), the per-entity walker (ObjectWalker), the *)
(* input-driven Player and the world tick (GameManager::runTick).          *)
(*                                                                         *)
(* C++ vectors are sequences: the element the code calls v[i] is v[i+1]    *)
(* here.  tile and collision are sequences of columns, as in the code, so  *)
(* that a ragged or mismatched storage is a state the model can express.   *)
(***************************************************************************)
EXTENDS Integers, Sequences, FiniteSets, TLC

VARIABLES
    tile,        \* MapManager::tile, a vector of columns of texture references
    collision,   \* MapManager::collision, a vector of columns of ints
    spawn_x,     \* MapManager::spawn_x
    spawn_y,     \* MapManager::spawn_y
    current_map, \* MapManager::current_map
    op,          \* the last operation performed, with its arguments and result
    ncalls,      \* number of operations performed so far
    hist,        \* history of the growth calls and cell writes performed so far
    pending,     \* the map file the next loadMap will read
    objects,     \* GameManager::objects, each with its ObjectWalker's fields
    paused,      \* GameManager::paused
    renderer     \* what the Renderer was last told: center, size, render items

gridVars == <<tile, collision, spawn_x, spawn_y, current_map>>
worldVars == <<objects, paused, renderer>>
vars == <<tile, collision, spawn_x, spawn_y, current_map, op, ncalls, hist, pending,
          objects, paused, renderer>>

----------------------------------------------------------------------------
(* Bounds of the model. *)

\* Largest cell coordinate named by a map record or a resize call.
MaxCoord == 2
\* Largest number of records in a map file.
MaxRecords == 2
\* Largest number of operations in one run of the map storage.
MaxCalls == 2
\* Largest number of growth calls and cell writes in one run.
MaxGrowCalls == 3

----------------------------------------------------------------------------
(* Values. *)

\* TextureManager::getMissingTexture()
MissingTexture == "missing"

\* Resource paths a map record may name.
PngPaths == {"tile.png"}
TxtPaths == {"object.txt"}

\* std::filesystem::path::extension()
Extension(path) ==
    IF path \in PngPaths THEN ".png"
    ELSE IF path \in TxtPaths THEN ".txt"
    ELSE ""

\* TextureManager::loadTexture(path): one texture per path
LoadTexture(path) == path

\* Collision values a map record may give.
CollisionValues == {0, 1}

Coords == 0..MaxCoord

Max(a, b) == IF a > b THEN a ELSE b
Min(a, b) == IF a < b THEN a ELSE b
Abs(a) == IF a < 0 THEN -a ELSE a

----------------------------------------------------------------------------
(* MapManager *)

\* std::vector::resize(n, fill): keeps the first n elements, appends fill
VecResize(v, n, fill) ==
    [i \in 1..n |-> IF i <= Len(v) THEN v[i] ELSE fill]

\* Mutant of ResizeExtent: the requested extent is taken as it is, also
\* when the call is not absolute.
ResizeExtentRequested(t, x, y, absolute) ==
    [size_x |-> x + 1, size_y |-> y + 1]

\* lines 97-110: the extent resizeMapStorage(x, y, absolute) resizes to
ResizeExtent(t, x, y, absolute) ==
    LET nx == x + 1
        ny == y + 1
    IN  IF absolute
        THEN [size_x |-> nx, size_y |-> ny]
        ELSE [size_x |-> IF Len(t) > nx THEN Len(t) ELSE nx,
              size_y |-> IF Len(t) # 0
                         THEN (IF Len(t[1]) > ny THEN Len(t[1]) ELSE ny)
                         ELSE ny]

\* Mutant of ResizeStorage: only the columns that existed before the call
\* are resized; the columns the outer resize adds stay empty.
ResizeStorageOldColumns(s, size_x, size_y, fill) ==
    LET outer == VecResize(s, size_x, <<>>)
    IN  [i \in 1..size_x |->
            IF i <= Len(s) THEN VecResize(outer[i], size_y, fill) ELSE outer[i]]

\* lines 112-118 for one of the two storages: the outer resize, then every
\* column resized with the given fill value
ResizeStorage(s, size_x, size_y, fill) ==
    LET outer == VecResize(s, size_x, <<>>)
    IN  [i \in 1..size_x |-> VecResize(outer[i], size_y, fill)]

\* resizeMapStorage(x, y, absolute) on storage (t, c)
ResizeMapStorage(t, c, x, y, absolute) ==
    LET e == ResizeExtent(t, x, y, absolute)
    IN  [tile |-> ResizeStorage(t, e.size_x, e.size_y, MissingTexture),
         collision |-> ResizeStorage(c, e.size_x, e.size_y, 1)]

\* lines 63-64: tile[x][y] = texture; collision[x][y] = coll
WriteTile(t, c, x, y, texture, coll) ==
    [tile |-> [t EXCEPT ![x + 1][y + 1] = texture],
     collision |-> [c EXCEPT ![x + 1][y + 1] = coll]]

\* lines 53-69: one record of the map file
LoadRecord(t, c, r) ==
    LET g == ResizeMapStorage(t, c, r.x, r.y, FALSE)
    IN  IF Extension(r.path) = ".png"
        THEN WriteTile(g.tile, g.collision, r.x, r.y, LoadTexture(r.path), r.coll)
        ELSE g

\* lines 53-69: the records of the map file, in order
RECURSIVE LoadRecords(_, _, _)
LoadRecords(t, c, recs) ==
    IF recs = <<>>
    THEN [tile |-> t, collision |-> c]
    ELSE LET g == LoadRecord(t, c, Head(recs))
         IN  LoadRecords(g.tile, g.collision, Tail(recs))

\* Mutant of LoadedStorage: the old data is not cleared (line 45 missing).
LoadedStorageNoClear(t, c, file) ==
    LoadRecords(t, c, file.recs)

\* lines 45-69: the storage after loadMap of a file
LoadedStorage(t, c, file) ==
    LET cleared == ResizeMapStorage(t, c, -1, -1, TRUE)
    IN  LoadRecords(cleared.tile, cleared.collision, file.recs)

\* Mutant of GetCollision: column 0 and row 0 count as out of bounds.
GetCollisionEdge(c, pos_x, pos_y) ==
    IF pos_x <= 0 \/ pos_y <= 0 \/ pos_x >= Len(c)
    THEN 1
    ELSE IF pos_y >= Len(c[pos_x + 1])
         THEN 1
         ELSE c[pos_x + 1][pos_y + 1]

\* MapManager::getCollision(pos_x, pos_y) on collision storage c
GetCollision(c, pos_x, pos_y) ==
    IF pos_x < 0 \/ pos_y < 0 \/ pos_x >= Len(c)
    THEN 1
    ELSE IF pos_y >= Len(c[pos_x + 1])
         THEN 1
         ELSE c[pos_x + 1][pos_y + 1]

----------------------------------------------------------------------------
(* Inputs of the map storage. *)

\* A record of a map file: <x> <y> <path> [<coll> <layer>]; the trailing
\* pair is read only for a .png path (line 61), the layer is never used.
TileRecords ==
    [x : Coords, y : Coords, path : PngPaths, coll : CollisionValues]
ObjectRecords ==
    [x : Coords, y : Coords, path : TxtPaths, coll : {0}]
Records == TileRecords \cup ObjectRecords

TileRec(x, y, coll) == [x |-> x, y |-> y, path |-> "tile.png", coll |-> coll]
ObjectRec(x, y) == [x |-> x, y |-> y, path |-> "object.txt", coll |-> 0]

RecordSeqs(n) == UNION {[1..k -> Records] : k \in 0..n}

\* A map file: the spawn pair (line 48), then the records (line 53).
File(sx, sy, recs) == [spawn_x |-> sx, spawn_y |-> sy, recs |-> recs]

\* Every map file of at most MaxRecords records.
MapFiles == {File(0, 0, recs) : recs \in RecordSeqs(MaxRecords)}
\* The map files of at most one record.
ShortFiles == {File(0, 0, recs) : recs \in RecordSeqs(1)}
\* The maps the constructor's loadMap (line 30) may find as map 1.
StartFiles ==
    { File(0, 0, <<>>),
      File(0, 0, <<TileRec(2, 2, 1)>>),
      File(1, 0, <<TileRec(0, 0, 0), TileRec(1, 2, 0)>>),
      File(0, 1, <<TileRec(1, 1, 0), ObjectRec(2, 0)>>) }

NoFile == [spawn_x |-> 0, spawn_y |-> 0, recs |-> <<>>, none |-> TRUE]

\* Width and height of the grid: the number of columns and the height of
\* column 0.
Width == Len(tile)
Height == IF Len(tile) = 0 THEN 0 ELSE Len(tile[1])

InGrid(x, y) == x >= 0 /\ y >= 0 /\ x < Width /\ y < Height

\* No world around the map storage.
NoWorld ==
    /\ objects = <<>>
    /\ paused = FALSE
    /\ renderer = [center_x |-> 0, center_y |-> 0, size_w |-> 0, size_h |-> 0,
                   items |-> <<>>]

EmptyFcn == [c \in {} |-> 0]
NoHist == [seenX |-> 0, seenY |-> 0, written |-> EmptyFcn]

----------------------------------------------------------------------------
(* Operations of the map storage. *)

\* MapManager::loadMap(map), lines 33-70, reading the given file
LoadMap(map, file) ==
    /\ LET g == LoadedStorage(tile, collision, file)
       IN  /\ tile' = g.tile
           /\ collision' = g.collision
    /\ current_map' = map
    /\ spawn_x' = file.spawn_x
    /\ spawn_y' = file.spawn_y
    /\ op' = [name |-> "loadMap", file |-> file, before |-> collision]

\* MapManager::resizeMapStorage(x, y, absolute), lines 94-119
Resize(x, y, absolute) ==
    /\ LET g == ResizeMapStorage(tile, collision, x, y, absolute)
       IN  /\ tile' = g.tile
           /\ collision' = g.collision
    /\ op' = [name |-> "resize", x |-> x, y |-> y, absolute |-> absolute]
    /\ UNCHANGED <<spawn_x, spawn_y, current_map>>

\* lines 63-64 on a cell of the grid
WriteCell(x, y, texture, coll) ==
    /\ InGrid(x, y)
    /\ LET g == WriteTile(tile, collision, x, y, texture, coll)
       IN  /\ tile' = g.tile
           /\ collision' = g.collision
    /\ op' = [name |-> "write", x |-> x, y |-> y]
    /\ UNCHANGED <<spawn_x, spawn_y, current_map>>

\* MapManager::getCollision(pos_x, pos_y), lines 78-85
QueryCollision(pos_x, pos_y) ==
    /\ op' = [name |-> "getCollision", x |-> pos_x, y |-> pos_y,
              ret |-> GetCollision(collision, pos_x, pos_y)]
    /\ UNCHANGED gridVars

\* The storage of a MapManager before its constructor's loadMap (line 30).
EmptyStorage ==
    /\ tile = <<>>
    /\ collision = <<>>
    /\ spawn_x = 0
    /\ spawn_y = 0
    /\ current_map = 0

\* The storage of a constructed MapManager: map 1 has been loaded (line 30).
ConstructedStorage ==
    \E f \in StartFiles :
        LET g == LoadedStorage(<<>>, <<>>, f)
        IN  /\ tile = g.tile
            /\ collision = g.collision
            /\ spawn_x = f.spawn_x
            /\ spawn_y = f.spawn_y
            /\ current_map = 1

----------------------------------------------------------------------------
(* SpecGrid: a constructed map storage under any MaxCalls calls of         *)
(* loadMap, resizeMapStorage and getCollision.                             *)

InitGrid ==
    /\ NoWorld
    /\ ConstructedStorage
    /\ op = [name |-> "init"]
    /\ ncalls = 0
    /\ hist = NoHist
    /\ pending = NoFile

GridLoadMap ==
    /\ UNCHANGED worldVars
    /\ ncalls < MaxCalls
    /\ \E file \in ShortFiles : LoadMap(1, file)
    /\ ncalls' = ncalls + 1
    /\ UNCHANGED <<hist, pending>>

GridResize ==
    /\ UNCHANGED worldVars
    /\ ncalls < MaxCalls
    /\ \E x \in -1..MaxCoord, y \in -1..MaxCoord, a \in BOOLEAN : Resize(x, y, a)
    /\ ncalls' = ncalls + 1
    /\ UNCHANGED <<hist, pending>>

GridQuery ==
    /\ UNCHANGED worldVars
    /\ ncalls < MaxCalls
    /\ \E x \in -1..(MaxCoord + 1), y \in -1..(MaxCoord + 1) : QueryCollision(x, y)
    /\ ncalls' = ncalls + 1
    /\ UNCHANGED <<hist, pending>>

NextGrid == GridLoadMap \/ GridResize \/ GridQuery

SpecGrid == InitGrid /\ [][NextGrid]_vars

----------------------------------------------------------------------------
(* SpecGrow: non-absolute resizeMapStorage calls and cell writes on a      *)
(* storage that starts empty (the state loadMap leaves at line 45).        *)

InitGrow ==
    /\ NoWorld
    /\ EmptyStorage
    /\ op = [name |-> "init"]
    /\ ncalls = 0
    /\ hist = NoHist
    /\ pending = NoFile

GrowResize ==
    /\ UNCHANGED worldVars
    /\ ncalls < MaxGrowCalls
    /\ \E x \in Coords, y \in Coords :
        /\ Resize(x, y, FALSE)
        /\ hist' = [hist EXCEPT !.seenX = Max(@, x + 1), !.seenY = Max(@, y + 1)]
    /\ ncalls' = ncalls + 1
    /\ UNCHANGED pending

GrowWrite ==
    /\ UNCHANGED worldVars
    /\ ncalls < MaxGrowCalls
    /\ \E x \in Coords, y \in Coords, coll \in {0, 2} :
        /\ WriteCell(x, y, LoadTexture("tile.png"), coll)
        /\ hist' = [hist EXCEPT !.written =
                [c \in DOMAIN @ \cup {<<x, y>>} |->
                    IF c = <<x, y>>
                    THEN [texture |-> LoadTexture("tile.png"), coll |-> coll]
                    ELSE @[c]]]
    /\ ncalls' = ncalls + 1
    /\ UNCHANGED pending

NextGrow == GrowResize \/ GrowWrite

SpecGrow == InitGrow /\ [][NextGrow]_vars

----------------------------------------------------------------------------
(* SpecLoad: loadMap of any map file of at most MaxRecords records, on a   *)
(* constructed map storage.                                                *)

InitLoad ==
    /\ NoWorld
    /\ ConstructedStorage
    /\ op = [name |-> "init"]
    /\ ncalls = 0
    /\ hist = NoHist
    /\ pending \in MapFiles

LoadPending ==
    /\ UNCHANGED worldVars
    /\ pending # NoFile
    /\ LoadMap(2, pending)
    /\ pending' = NoFile
    /\ ncalls' = ncalls + 1
    /\ UNCHANGED hist

NextLoad == LoadPending

SpecLoad == InitLoad /\ [][NextLoad]_vars

----------------------------------------------------------------------------
(* Claims about the map storage. *)

\* C1 (SpecGrow): after every non-absolute resizeMapStorage(x, y) call with
\* x, y >= 0, interleaved with cell writes, the width is the maximum of x+1
\* and the height the maximum of y+1 over the calls so far, and every cell
\* written so far still holds the texture and collision value last written
\* to it.
GrowthMonotone ==
    /\ Width = hist.seenX
    /\ Height = hist.seenY
    /\ \A cell \in DOMAIN hist.written :
        /\ InGrid(cell[1], cell[2])
        /\ tile[cell[1] + 1][cell[2] + 1] = hist.written[cell].texture
        /\ collision[cell[1] + 1][cell[2] + 1] = hist.written[cell].coll

\* C1 witness: a growth call that asks for less than the current width and
\* more than the current height, made after a cell was written.
GrowthMonotoneWitness ==
    /\ op.name = "resize"
    /\ op.x + 1 < Width
    /\ op.y + 1 = Height
    /\ \E cell \in DOMAIN hist.written :
        /\ cell[2] + 1 < Height
        /\ collision[cell[1] + 1][cell[2] + 1] = 2

\* What getCollision(x, y) is to return, by the extent of the grid.
ExpectedCollision(x, y) ==
    IF x < 0 \/ y < 0 \/ x >= Width \/ y >= Height
    THEN 1
    ELSE collision[x + 1][y + 1]

\* C2 (SpecGrid): in every reachable grid state getCollision(x, y) is 1 for
\* every coordinate outside the grid and the stored value for every
\* coordinate inside; a getCollision call returns that value and leaves the
\* grid as it was.
CollisionDefault ==
    /\ [](/\ \A x \in -1..(MaxCoord + 1), y \in -1..(MaxCoord + 1) :
                GetCollision(collision, x, y) = ExpectedCollision(x, y)
          /\ op.name = "getCollision" => op.ret = ExpectedCollision(op.x, op.y))
    /\ [][op'.name = "getCollision" =>
            (tile' = tile /\ collision' = collision)]_vars

\* C2 witness: a query inside the grid answered 0 and, in the same grid, a
\* coordinate past the last column.
CollisionDefaultWitness ==
    /\ op.name = "getCollision"
    /\ InGrid(op.x, op.y)
    /\ op.ret = 0
    /\ Width <= MaxCoord
    /\ GetCollision(collision, Width, 0) = 1

\* C3 (SpecGrid): tile and collision have the same number of columns, and
\* every column of both is as high as column 0.
SameExtents ==
    /\ Len(tile) = Len(collision)
    /\ \A i \in 1..Len(tile) :
        /\ Len(tile[i]) = Len(tile[1])
        /\ Len(collision[i]) = Len(tile[1])

\* C3 witness: a non-absolute resize that added columns and rows to a grid
\* that was not empty.
SameExtentsWitness ==
    /\ op.name = "resize"
    /\ ~op.absolute
    /\ op.x + 1 = Width
    /\ op.y + 1 = Height
    /\ Width >= 2
    /\ Height >= 2
    /\ \E x \in 0..(Width - 2), y \in 0..(Height - 2) : collision[x + 1][y + 1] = 0
    /\ tile[Width][Height] = MissingTexture

\* The records of a file that name cell (x, y), by their place in the file.
RecordsAt(file, x, y) ==
    {i \in 1..Len(file.recs) : file.recs[i].x = x /\ file.recs[i].y = y}

SetMax(S) == CHOOSE m \in S : \A n \in S : n <= m

AllTileRecords(file) ==
    \A i \in 1..Len(file.recs) : Extension(file.recs[i].path) = ".png"

\* C4 (SpecLoad): after loadMap of a file whose records are all tile records,
\* whatever the grid held before, the extent is (maxX + 1, maxY + 1) of the
\* records, every cell a record names holds the texture and collision value
\* of the last record naming it, and every other cell holds the missing
\* texture and collision 1.  For the single record (2, 2, tile, 1):
\* getCollision(2, 2) = 1, getCollision(0, 0) = 1, extent at least 3 x 3.
LoadRebuilds ==
    (op.name = "loadMap" /\ AllTileRecords(op.file)) =>
        LET recs == op.file.recs
            idx == 1..Len(recs)
        IN  /\ Width = (IF idx = {} THEN 0 ELSE SetMax({recs[i].x + 1 : i \in idx}))
            /\ Height = (IF idx = {} THEN 0 ELSE SetMax({recs[i].y + 1 : i \in idx}))
            /\ Len(collision) = Width
            /\ \A x \in 0..(Width - 1) :
                /\ Len(tile[x + 1]) = Height
                /\ Len(collision[x + 1]) = Height
                /\ \A y \in 0..(Height - 1) :
                    LET at == RecordsAt(op.file, x, y)
                    IN  IF at = {}
                        THEN /\ collision[x + 1][y + 1] = 1
                             /\ tile[x + 1][y + 1] = MissingTexture
                        ELSE /\ collision[x + 1][y + 1] = recs[SetMax(at)].coll
                             /\ tile[x + 1][y + 1] = LoadTexture(recs[SetMax(at)].path)
            /\ recs = <<TileRec(2, 2, 1)>> =>
                /\ GetCollision(collision, 2, 2) = 1
                /\ GetCollision(collision, 0, 0) = 1
                /\ Width >= 3
                /\ Height >= 3

\* C4 witness: a load of two tile records naming the same cell with
\* different collision values, over a grid that held collision 0 in a cell
\* the new map does not name.
LoadRebuildsWitness ==
    /\ op.name = "loadMap"
    /\ AllTileRecords(op.file)
    /\ Len(op.file.recs) = 2
    /\ op.file.recs[1].x = op.file.recs[2].x
    /\ op.file.recs[1].y = op.file.recs[2].y
    /\ op.file.recs[1].coll # op.file.recs[2].coll
    /\ \E x \in 0..(Width - 1), y \in 0..(Height - 1) :
        /\ RecordsAt(op.file, x, y) = {}
        /\ GetCollision(op.before, x, y) = 0
        /\ collision[x + 1][y + 1] = 1

----------------------------------------------------------------------------
(* Configuration constants (config.h). *)

\* Pixels per tile.
TILE_SIZE == 2
\* Clock units between two position steps of a walker.
SPEED == 1
\* Clock units between two animation signals of a walker.
FRAME_TIME == 2

----------------------------------------------------------------------------
(* Bounds of the entity model. *)

\* Largest delta of one tick.
MaxDelta == 2
\* Largest pixel coordinate a walker is sent to.
MaxPixel == 2
\* Latest clock value at which a walker is given a new destination.
LastRetarget == 2

----------------------------------------------------------------------------
(* GameObject and ObjectWalker *)

Dirs == {"UP", "RIGHT", "DOWN", "LEFT"}

\* sgn(v): -1, 0 or 1
Sgn(v) == IF v > 0 THEN 1 ELSE IF v < 0 THEN -1 ELSE 0

\* The C++ integer division, which truncates toward zero.
TruncDiv(a, b) ==
    IF (a >= 0) = (b > 0) THEN Abs(a) \div Abs(b) ELSE -(Abs(a) \div Abs(b))

\* GameObject::GameObject, lines 121-148: no walker, off screen at (-1, -1)
NewGameObject ==
    [kind |-> "object", type |-> 0,
     map_x |-> -1, map_y |-> -1,
     screen_x |-> -1 * TILE_SIZE, screen_y |-> -1 * TILE_SIZE,
     size_x |-> 1, size_y |-> 1,
     current_frame |-> 0, loop_frame |-> 0, end_frame |-> 0, stop_frame |-> 0,
     dir |-> "DOWN", camera_center |-> FALSE, ntextures |-> 1,
     walker |-> FALSE, dest_x |-> 0, dest_y |-> 0,
     tick |-> 0, movement_deadline |-> 0, animation_deadline |-> 0]

\* ObjectWalker::setDestination(x, y), lines 293-301
SetDestination(e, x, y) ==
    [e EXCEPT !.dest_x = x, !.dest_y = y,
              !.movement_deadline = 0, !.animation_deadline = 0]

\* GameObject::setScreenPos(x, y, anim), lines 156-168
SetScreenPos(e, x, y, anim) ==
    LET e1 == IF e.walker THEN SetDestination(e, x, y) ELSE e
        anim1 == IF e.walker THEN anim ELSE FALSE
    IN  IF ~anim1
        THEN [e1 EXCEPT !.screen_x = x, !.screen_y = y]
        ELSE e1

\* GameObject::setMapPos(x, y, anim), lines 187-203
SetMapPos(e, x, y, anim) ==
    LET e1 == [e EXCEPT !.map_x = x, !.map_y = y]
        e2 == IF e.walker
              THEN SetDestination(e1, x * TILE_SIZE, y * TILE_SIZE)
              ELSE e1
        anim1 == IF e.walker THEN anim ELSE FALSE
    IN  IF ~anim1
        THEN [e2 EXCEPT !.screen_x = x * TILE_SIZE, !.screen_y = y * TILE_SIZE]
        ELSE e2

\* GameObject::getCenter, lines 176-180
GetCenter(e) ==
    [x |-> e.screen_x + TruncDiv(TILE_SIZE * e.size_x, 2),
     y |-> e.screen_y + TruncDiv(TILE_SIZE * e.size_y, 2)]

\* Mutant of FootprintCells: the inner loop runs to size_x instead of size_y.
FootprintCellsSquare(e, offset_x, offset_y) ==
    [k \in 1..(e.size_x * e.size_x) |->
        [x |-> e.map_x + offset_x + ((k - 1) \div e.size_x),
         y |-> e.map_y + offset_y + ((k - 1) % e.size_x)]]

\* The cells checkCollision visits, in the order of its loops (lines 224-225).
FootprintCells(e, offset_x, offset_y) ==
    [k \in 1..(e.size_x * e.size_y) |->
        [x |-> e.map_x + offset_x + ((k - 1) \div e.size_y),
         y |-> e.map_y + offset_y + ((k - 1) % e.size_y)]]

\* lines 222-229: coll = std::max(coll, getCollision(...)) over the cells
RECURSIVE MaxCollision(_, _, _)
MaxCollision(c, cells, coll) ==
    IF cells = <<>>
    THEN coll
    ELSE MaxCollision(c, Tail(cells),
                      Max(coll, GetCollision(c, Head(cells).x, Head(cells).y)))

\* GameObject::checkCollision(offset_x, offset_y), lines 217-232
CheckCollision(e, c, offset_x, offset_y) ==
    MaxCollision(c, FootprintCells(e, offset_x, offset_y), 0)

\* Mutant of AdvanceFrame: the frame is incremented and never wrapped.
AdvanceFrameNoWrap(e, dir) ==
    [e EXCEPT !.dir = dir, !.current_frame = e.current_frame + 1]

\* Mutant of AdvanceFrame: the wrap is taken one frame early (>= for >).
AdvanceFrameEarlyWrap(e, dir) ==
    [e EXCEPT !.dir = dir,
              !.current_frame = IF e.current_frame + 1 >= e.end_frame
                                THEN e.loop_frame
                                ELSE e.current_frame + 1]

\* GameObject::advanceFrame(dir), lines 265-271
AdvanceFrame(e, dir) ==
    [e EXCEPT !.dir = dir,
              !.current_frame = IF e.current_frame + 1 > e.end_frame
                                THEN e.loop_frame
                                ELSE e.current_frame + 1]

\* Mutant of StopFrame: the toggle of the line commented out at line 276.
StopFrameToggling(e, dir) ==
    [e EXCEPT !.current_frame = IF e.current_frame # e.stop_frame
                                THEN e.stop_frame ELSE 0]

\* GameObject::stopFrame(dir), lines 273-281
StopFrame(e, dir) ==
    IF e.current_frame # e.stop_frame /\ e.current_frame # 0
    THEN [e EXCEPT !.current_frame = e.stop_frame]
    ELSE IF e.current_frame # 0
         THEN [e EXCEPT !.current_frame = 0]
         ELSE e

\* Mutant of WalkerMove: a step of two pixels per axis, with the overshoot
\* check resetting the sign but not the position.
WalkerMoveTwoPixels(e) ==
    LET sgn_x0 == Sgn(e.dest_x - e.screen_x)
        sgn_y0 == Sgn(e.dest_y - e.screen_y)
        tmp_x == e.screen_x + 2 * sgn_x0
        tmp_y == e.screen_y + 2 * sgn_y0
        sgn_x == IF sgn_x0 # Sgn(e.dest_x - tmp_x) THEN 0 ELSE sgn_x0
        sgn_y == IF sgn_y0 # Sgn(e.dest_y - tmp_y) THEN 0 ELSE sgn_y0
    IN  [tmp_x |-> tmp_x, tmp_y |-> tmp_y, sgn_x |-> sgn_x, sgn_y |-> sgn_y,
         dir |-> IF Abs(e.dest_x - tmp_x) > Abs(e.dest_y - tmp_y)
                 THEN (IF sgn_x >= 0 THEN "LEFT" ELSE "RIGHT")
                 ELSE (IF sgn_y >= 0 THEN "DOWN" ELSE "UP")]

\* Mutant of WalkerMove: the y axis moves only once the x axis has arrived.
WalkerMoveAxisByAxis(e) ==
    LET sgn_x0 == Sgn(e.dest_x - e.screen_x)
        sgn_y0 == IF sgn_x0 = 0 THEN Sgn(e.dest_y - e.screen_y) ELSE 0
        tmp_x0 == e.screen_x + sgn_x0
        tmp_y0 == e.screen_y + sgn_y0
        over_x == sgn_x0 # Sgn(e.dest_x - tmp_x0)
        over_y == sgn_y0 # Sgn(e.dest_y - tmp_y0)
        tmp_x == IF over_x THEN e.dest_x ELSE tmp_x0
        tmp_y == IF over_y /\ sgn_x0 = 0 THEN e.dest_y ELSE tmp_y0
        sgn_x == IF over_x THEN 0 ELSE sgn_x0
        sgn_y == IF over_y THEN 0 ELSE sgn_y0
    IN  [tmp_x |-> tmp_x, tmp_y |-> tmp_y, sgn_x |-> sgn_x, sgn_y |-> sgn_y,
         dir |-> IF Abs(e.dest_x - tmp_x) > Abs(e.dest_y - tmp_y)
                 THEN (IF sgn_x >= 0 THEN "LEFT" ELSE "RIGHT")
                 ELSE (IF sgn_y >= 0 THEN "DOWN" ELSE "UP")]

\* lines 320-352: the position and direction of one step of the walker
WalkerMove(e) ==
    LET sgn_x0 == Sgn(e.dest_x - e.screen_x)
        sgn_y0 == Sgn(e.dest_y - e.screen_y)
        tmp_x0 == e.screen_x + sgn_x0
        tmp_y0 == e.screen_y + sgn_y0
        over_x == sgn_x0 # Sgn(e.dest_x - tmp_x0)
        over_y == sgn_y0 # Sgn(e.dest_y - tmp_y0)
        tmp_x == IF over_x THEN e.dest_x ELSE tmp_x0
        tmp_y == IF over_y THEN e.dest_y ELSE tmp_y0
        sgn_x == IF over_x THEN 0 ELSE sgn_x0
        sgn_y == IF over_y THEN 0 ELSE sgn_y0
    IN  [tmp_x |-> tmp_x, tmp_y |-> tmp_y, sgn_x |-> sgn_x, sgn_y |-> sgn_y,
         dir |-> IF Abs(e.dest_x - tmp_x) > Abs(e.dest_y - tmp_y)
                 THEN (IF sgn_x >= 0 THEN "LEFT" ELSE "RIGHT")
                 ELSE (IF sgn_y >= 0 THEN "DOWN" ELSE "UP")]

\* line 314: whether runTick(delta) performs a position step
WalkerSteps(e, delta) == e.movement_deadline < e.tick + delta

\* lines 360-364: the animation signal runTick(delta) gives
WalkerSignal(e, delta) ==
    IF WalkerSteps(e, delta) /\ e.animation_deadline < e.tick + delta
    THEN (IF WalkerMove(e).sgn_x = 0 /\ WalkerMove(e).sgn_y = 0
          THEN "stop" ELSE "advance")
    ELSE "none"

\* ObjectWalker::runTick(delta), lines 310-369
WalkerRunTick(e, delta) ==
    LET tick == e.tick + delta
        m == WalkerMove(e)
        moved == [e EXCEPT !.tick = tick,
                           !.screen_x = m.tmp_x, !.screen_y = m.tmp_y,
                           !.movement_deadline = tick + SPEED]
        signal == WalkerSignal(e, delta)
    IN  IF WalkerSteps(e, delta)
        THEN IF signal = "none"
             THEN moved
             ELSE [(IF signal = "stop"
                    THEN StopFrame(moved, m.dir)
                    ELSE AdvanceFrame(moved, m.dir))
                   EXCEPT !.animation_deadline = tick + FRAME_TIME]
        ELSE [e EXCEPT !.tick = tick]

\* GameObject::runTick(delta), lines 252-257
ObjectRunTick(e, delta) ==
    IF e.walker THEN WalkerRunTick(e, delta) ELSE e

\* Player::Player, lines 371-406: a walker, camera anchor, at the spawn;
\* tick0 is the value the walker's clock starts with
NewPlayer(type, sx, sy, tick0) ==
    LET e0 == [NewGameObject EXCEPT !.kind = "player", !.type = type,
                                    !.walker = TRUE, !.tick = tick0,
                                    !.camera_center = TRUE]
        e1 == SetMapPos(e0, sx, sy, FALSE)
    IN  [e1 EXCEPT !.loop_frame = 1, !.end_frame = 4, !.stop_frame = 5,
                   !.ntextures = 5 + 1]

\* Values the clock of a new walker may hold.
StartTicks == {0, 1}

----------------------------------------------------------------------------
(* SpecWalk: one Player's walker under setDestination and runTick.         *)

\* The map loaded for the walker's world.
WalkFile == File(0, 0, <<TileRec(0, 0, 0), TileRec(1, 0, 0)>>)

Pixels == 0..MaxPixel

\* The clock values of the model: after the last new destination there is
\* time for MaxPixel position steps and one more.
MaxTick == LastRetarget + (MaxPixel + 1) * (SPEED + MaxDelta)

ChebDist(e) == Max(Abs(e.dest_x - e.screen_x), Abs(e.dest_y - e.screen_y))

\* History of a walker: the distance still to go by the position steps
\* counted since the last setDestination, the number of stopFrame calls made
\* in a row, and whether that row started between frames 0 and stop_frame.
NoWalkHist == [togo |-> 0, stops |-> 0, mid |-> FALSE]

WalkHistAfter(h, e, delta) ==
    LET signal == WalkerSignal(e, delta)
    IN  [togo |-> IF WalkerSteps(e, delta) THEN Max(0, h.togo - 1) ELSE h.togo,
         stops |-> IF signal = "stop" THEN Min(h.stops + 1, 4)
                   ELSE IF signal = "advance" THEN 0 ELSE h.stops,
         mid |-> IF signal = "stop" /\ h.stops = 0
                 THEN e.current_frame \notin {0, e.stop_frame}
                 ELSE IF signal = "advance" THEN FALSE ELSE h.mid]

InitWalk ==
    /\ LET g == LoadedStorage(<<>>, <<>>, WalkFile)
       IN  /\ tile = g.tile
           /\ collision = g.collision
    /\ spawn_x = WalkFile.spawn_x
    /\ spawn_y = WalkFile.spawn_y
    /\ current_map = 1
    /\ \E t \in StartTicks : objects = <<NewPlayer(0, spawn_x, spawn_y, t)>>
    /\ paused = FALSE
    /\ renderer = [center_x |-> 0, center_y |-> 0, size_w |-> 0, size_h |-> 0,
                   items |-> <<>>]
    /\ op = [name |-> "init"]
    /\ ncalls = 0
    /\ hist = NoWalkHist
    /\ pending = NoFile

\* ObjectWalker::setDestination(x, y) on the Player's walker
WalkSetDestination ==
    /\ objects[1].tick <= LastRetarget
    /\ \E x \in Pixels, y \in Pixels :
        /\ objects' = [objects EXCEPT ![1] = SetDestination(@, x, y)]
        /\ hist' = [hist EXCEPT !.togo = ChebDist(objects'[1])]
        /\ op' = [name |-> "setDestination", x |-> x, y |-> y]
    /\ UNCHANGED <<gridVars, ncalls, pending, paused, renderer>>

\* ObjectWalker::runTick(delta) on the Player's walker
WalkRunTick(delta) ==
    /\ objects[1].tick + delta <= MaxTick
    /\ objects' = [objects EXCEPT ![1] = WalkerRunTick(@, delta)]
    /\ hist' = WalkHistAfter(hist, objects[1], delta)
    /\ op' = [name |-> "runTick",
              stepped |-> WalkerSteps(objects[1], delta),
              signal |-> WalkerSignal(objects[1], delta),
              frame_before |-> objects[1].current_frame,
              from_x |-> objects[1].screen_x, from_y |-> objects[1].screen_y]
    /\ UNCHANGED <<gridVars, ncalls, pending, paused, renderer>>

\* A tick in which the clock moves on.
WalkRunTickOn == \E delta \in 1..MaxDelta : WalkRunTick(delta)

\* A tick with delta 0.
WalkRunTickZero == WalkRunTick(0)

NextWalk == WalkSetDestination \/ WalkRunTickOn \/ WalkRunTickZero

SpecWalk == InitWalk /\ [][NextWalk]_vars

----------------------------------------------------------------------------
(* SpecArrive: a walker given a target once, from any visual position, and *)
(* ticked from then on.                                                    *)

\* The Player placed at pixel (cx, cy) by setScreenPos(cx, cy, false) and
\* then sent to (tx, ty) by setDestination(tx, ty).
InitArrive ==
    /\ LET g == LoadedStorage(<<>>, <<>>, WalkFile)
       IN  /\ tile = g.tile
           /\ collision = g.collision
    /\ spawn_x = WalkFile.spawn_x
    /\ spawn_y = WalkFile.spawn_y
    /\ current_map = 1
    /\ \E t \in StartTicks, cx \in Pixels, cy \in Pixels, tx \in Pixels, ty \in Pixels :
        objects = <<SetDestination(
                        SetScreenPos(NewPlayer(0, spawn_x, spawn_y, t), cx, cy, FALSE),
                        tx, ty)>>
    /\ paused = FALSE
    /\ renderer = [center_x |-> 0, center_y |-> 0, size_w |-> 0, size_h |-> 0,
                   items |-> <<>>]
    /\ op = [name |-> "setDestination", x |-> objects[1].dest_x, y |-> objects[1].dest_y]
    /\ ncalls = 0
    /\ hist = [NoWalkHist EXCEPT !.togo = ChebDist(objects[1])]
    /\ pending = NoFile

NextArrive == WalkRunTickOn \/ WalkRunTickZero

\* The ticks keep being called, with deltas that let the clock move on.
SpecArrive == InitArrive /\ [][NextArrive]_vars /\ WF_vars(WalkRunTickOn)

----------------------------------------------------------------------------
(* Claims about the walker and the animation frames. *)

AtTarget(e) == e.screen_x = e.dest_x /\ e.screen_y = e.dest_y

\* C5 (SpecArrive): with a target (tx, ty) set from any visual position, if
\* setDestination is not called again and runTick keeps being called with
\* deltas that let the clock pass each movement deadline, the distance
\* max(|tx - x|, |ty - y|) goes down by one with every position step, so the
\* visual position is exactly (tx, ty) after max(|tx - cx|, |ty - cy|)
\* position steps; it is eventually (tx, ty) and stays there on every later
\* tick.
ExactArrival ==
    /\ [](ChebDist(objects[1]) = hist.togo)
    /\ <>[]AtTarget(objects[1])

\* C5 witness: the walker is at a target it was sent to from another pixel
\* (the Player's frame has left 0), and a later position step has left it
\* there.
ExactArrivalWitness ==
    /\ op.name = "runTick"
    /\ op.stepped
    /\ objects[1].dest_x = MaxPixel
    /\ objects[1].dest_y = 1
    /\ hist.mid
    /\ AtTarget(objects[1])
    /\ op.from_x = objects[1].dest_x
    /\ op.from_y = objects[1].dest_y
    /\ hist.stops >= 2

\* One axis of a tick: from, to and the target coordinate.
AxisNoOvershoot(from, to, dest) ==
    /\ Abs(to - from) <= 1
    /\ Abs(dest - to) <= Abs(dest - from)
    /\ Sgn(dest - to) \in {0, Sgn(dest - from)}
    /\ from = dest => to = from

\* C6 (SpecWalk): in every ObjectWalker::runTick, whatever the delta, the
\* visual position changes by at most one pixel on each axis; on each axis
\* the distance to the target does not increase and the coordinate does not
\* pass to the other side of the target; an axis at its target does not move.
NoOvershoot ==
    op.name = "runTick" =>
        /\ AxisNoOvershoot(op.from_x, objects[1].screen_x, objects[1].dest_x)
        /\ AxisNoOvershoot(op.from_y, objects[1].screen_y, objects[1].dest_y)

\* C6 witness: a tick that stepped the y axis onto its target while the x
\* axis, already at its target, stayed.
NoOvershootWitness ==
    /\ op.name = "runTick"
    /\ op.stepped
    /\ op.from_x = objects[1].dest_x
    /\ op.from_y # objects[1].screen_y
    /\ AtTarget(objects[1])

\* C7 as stated: from a currentFrame that is neither 0 nor stopFrame, the
\* first stopFrame call gives stopFrame, the second 0 and the third
\* stopFrame again.
StopFrameToggle ==
    hist.mid =>
        /\ hist.stops = 1 => objects[1].current_frame = objects[1].stop_frame
        /\ hist.stops = 2 => objects[1].current_frame = 0
        /\ hist.stops = 3 => objects[1].current_frame = objects[1].stop_frame

\* C7 amended (SpecWalk): from a currentFrame that is neither 0 nor stopFrame,
\* the first stopFrame call gives stopFrame and the second 0; the third and
\* every later stopFrame call leave currentFrame at 0.
StopFrameSettles ==
    hist.mid =>
        /\ hist.stops = 1 => objects[1].current_frame = objects[1].stop_frame
        /\ hist.stops = 2 => objects[1].current_frame = 0
        /\ hist.stops >= 3 => objects[1].current_frame = 0

\* C7 witness: three stopFrame calls in a row, the first from a frame that
\* is neither 0 nor stopFrame.
StopFrameSettlesWitness ==
    /\ hist.mid
    /\ hist.stops = 3
    /\ op.name = "runTick"
    /\ op.signal = "stop"

\* C8 (SpecWalk): after advanceFrame currentFrame is at most endFrame,
\* whatever it was before (also stopFrame > endFrame); from endFrame it
\* becomes loopFrame, from below endFrame it goes up by one.
FrameCycling ==
    (op.name = "runTick" /\ op.signal = "advance") =>
        LET e == objects[1]
        IN  /\ e.current_frame <= e.end_frame
            /\ op.frame_before = e.end_frame => e.current_frame = e.loop_frame
            /\ op.frame_before < e.end_frame =>
                    e.current_frame = op.frame_before + 1

\* C8 witness: advanceFrame called at stopFrame, which is above endFrame.
FrameCyclingWitness ==
    /\ op.name = "runTick"
    /\ op.signal = "advance"
    /\ op.frame_before = objects[1].stop_frame
    /\ objects[1].stop_frame > objects[1].end_frame
    /\ objects[1].current_frame = objects[1].loop_frame

\* C8 second case reached: advanceFrame called at endFrame.
FrameCyclingAtEnd ==
    /\ op.name = "runTick"
    /\ op.signal = "advance"
    /\ op.frame_before = objects[1].end_frame

----------------------------------------------------------------------------
(* Player and GameManager *)

\* The tile offset of a direction (lines 470-485)
DirOffset(d) ==
    IF d = "UP" THEN <<0, -1>>
    ELSE IF d = "RIGHT" THEN <<1, 0>>
    ELSE IF d = "DOWN" THEN <<0, 1>>
    ELSE <<-1, 0>>

\* Mutant of PlayerMove: a tile of collision 1 does not stop the move
\* (<= 1 for < 1).
PlayerMoveThroughWalls(e, c, d) ==
    LET o == DirOffset(d)
    IN  IF CheckCollision(e, c, o[1], o[2]) <= 1
        THEN SetMapPos(e, e.map_x + o[1], e.map_y + o[2], TRUE)
        ELSE e

\* One of the four blocks of lines 470-485: the move of one tile in
\* direction d, made when the tile there is free
PlayerMove(e, c, d) ==
    LET o == DirOffset(d)
    IN  IF CheckCollision(e, c, o[1], o[2]) < 1
        THEN SetMapPos(e, e.map_x + o[1], e.map_y + o[2], TRUE)
        ELSE e

\* lines 470-485: the blocks of the directions dirs, in order, each on the
\* entity as the blocks before it left it
RECURSIVE PlayerMoves(_, _, _, _)
PlayerMoves(e, c, dirs, active) ==
    IF dirs = <<>>
    THEN e
    ELSE PlayerMoves(IF Head(dirs) \in active THEN PlayerMove(e, c, Head(dirs)) ELSE e,
                     c, Tail(dirs), active)

\* Mutant of PlayerRunTick: the input is polled whatever the frame.
PlayerRunTickAlwaysPolls(e, c, delta, active) ==
    PlayerMoves(ObjectRunTick(e, delta), c, <<"UP", "RIGHT", "DOWN", "LEFT">>, active)

\* Player::runTick(delta), lines 459-487; active is the set of directions
\* whose input is active for this Player's slot
PlayerRunTick(e, c, delta, active) ==
    LET e0 == ObjectRunTick(e, delta)
    IN  IF e0.current_frame = 0 \/ e0.current_frame = e0.stop_frame
        THEN PlayerMoves(e0, c, <<"UP", "RIGHT", "DOWN", "LEFT">>, active)
        ELSE e0

\* obj->runTick(delta), line 577: Player::runTick for a Player, with the
\* input of its slot (isPlayer for type 0, isPlayer2 for type 1)
RunTickOf(e, c, delta, in1, in2) ==
    IF e.kind = "player"
    THEN PlayerRunTick(e, c, delta,
                       IF e.type = 0 THEN in1 ELSE IF e.type = 1 THEN in2 ELSE {})
    ELSE ObjectRunTick(e, delta)

\* MapManager::render, lines 87-92: one item per cell, columns first
RECURSIVE ColumnItems(_, _, _)
ColumnItems(t, i, j) ==
    IF j > Len(t[i])
    THEN <<>>
    ELSE <<[texture |-> t[i][j], x |-> (i - 1) * TILE_SIZE, y |-> (j - 1) * TILE_SIZE,
            flip_h |-> FALSE, flip_v |-> FALSE, priority |-> 0]>>
         \o ColumnItems(t, i, j + 1)

RECURSIVE MapItems(_, _)
MapItems(t, i) ==
    IF i > Len(t) THEN <<>> ELSE ColumnItems(t, i, 1) \o MapItems(t, i + 1)

\* GameObject::render, lines 234-250: the frame of the list of the direction
ObjectItem(e) ==
    [texture |-> [list |-> IF e.dir = "UP" THEN "up"
                           ELSE IF e.dir = "DOWN" THEN "down" ELSE "side",
                  frame |-> e.current_frame],
     x |-> e.screen_x, y |-> e.screen_y,
     flip_h |-> (e.dir = "RIGHT"), flip_v |-> FALSE, priority |-> 1]

\* std::numeric_limits<int>::max() and min()
IntMax == 2147483647
IntMin == -IntMax - 1

\* Mutant of CameraAccumulate: every object is counted, camera anchor or not.
RECURSIVE CameraAccumulateAll(_, _, _)
CameraAccumulateAll(objs, i, acc) ==
    IF i > Len(objs)
    THEN acc
    ELSE LET ctr == GetCenter(objs[i])
         IN  CameraAccumulateAll(objs, i + 1,
                [camera_count |-> acc.camera_count + 1,
                 camera_x |-> acc.camera_x + ctr.x,
                 camera_y |-> acc.camera_y + ctr.y,
                 min_x |-> Min(acc.min_x, ctr.x), min_y |-> Min(acc.min_y, ctr.y),
                 max_x |-> Max(acc.max_x, ctr.x), max_y |-> Max(acc.max_y, ctr.y),
                 items |-> Append(acc.items, ObjectItem(objs[i]))])

\* lines 574-595 on the objects as their ticks left them: each is rendered,
\* and the camera anchors are counted, summed and boxed
RECURSIVE CameraAccumulate(_, _, _)
CameraAccumulate(objs, i, acc) ==
    IF i > Len(objs)
    THEN acc
    ELSE LET ctr == GetCenter(objs[i])
             rendered == [acc EXCEPT !.items = Append(@, ObjectItem(objs[i]))]
         IN  CameraAccumulate(objs, i + 1,
                IF objs[i].camera_center
                THEN [rendered EXCEPT
                        !.camera_count = @ + 1,
                        !.camera_x = @ + ctr.x,
                        !.camera_y = @ + ctr.y,
                        !.min_x = Min(@, ctr.x), !.min_y = Min(@, ctr.y),
                        !.max_x = Max(@, ctr.x), !.max_y = Max(@, ctr.y)]
                ELSE rendered)

\* Mutant of Multiplier: the loop starts from the multiplier of the size the
\* Renderer was last given, when that is larger.
RECURSIVE MultiplierFromLast(_, _, _)
MultiplierFromLast(multiplier, size_x, size_y) ==
    LET m == Max(multiplier, renderer.size_w \div (4 * TILE_SIZE))
    IN  IF 4 * m * TILE_SIZE < size_x /\ 3 * m * TILE_SIZE < size_y
        THEN MultiplierFromLast(m + 1, size_x, size_y)
        ELSE m

\* lines 604-607: the multiplier the loop ends with
RECURSIVE Multiplier(_, _, _)
Multiplier(multiplier, size_x, size_y) ==
    IF 4 * multiplier * TILE_SIZE < size_x /\ 3 * multiplier * TILE_SIZE < size_y
    THEN Multiplier(multiplier + 1, size_x, size_y)
    ELSE multiplier

\* Mutant of TickedObjects: the objects are ticked also when paused.
TickedObjectsAlways(objs, c, isPaused, delta, in1, in2) ==
    [i \in 1..Len(objs) |-> RunTickOf(objs[i], c, delta, in1, in2)]

\* GameManager::runTick(delta), lines 559-611: the objects after their ticks
TickedObjects(objs, c, isPaused, delta, in1, in2) ==
    [i \in 1..Len(objs) |->
        IF isPaused THEN objs[i] ELSE RunTickOf(objs[i], c, delta, in1, in2)]

\* GameManager::runTick(delta), lines 559-611: what the Renderer is told
RenderedWorld(t, objs) ==
    LET acc == CameraAccumulate(objs, 1,
                    [camera_count |-> 0, camera_x |-> 0, camera_y |-> 0,
                     min_x |-> IntMax, min_y |-> IntMax,
                     max_x |-> IntMin, max_y |-> IntMin,
                     items |-> MapItems(t, 1)])
        size_x == Abs(acc.max_x - acc.min_x)
        size_y == Abs(acc.max_y - acc.min_y)
        multiplier == Multiplier(5, size_x, size_y)
    IN  [center_x |-> IF acc.camera_count > 0
                      THEN TruncDiv(acc.camera_x, acc.camera_count)
                      ELSE acc.camera_x,
         center_y |-> IF acc.camera_count > 0
                      THEN TruncDiv(acc.camera_y, acc.camera_count)
                      ELSE acc.camera_y,
         size_w |-> 4 * multiplier * TILE_SIZE,
         size_h |-> 3 * multiplier * TILE_SIZE,
         items |-> acc.items]

\* GameManager::runTick(delta), lines 559-611
WorldTick(delta, in1, in2) ==
    /\ objects' = TickedObjects(objects, collision, paused, delta, in1, in2)
    /\ renderer' = RenderedWorld(tile, objects')
    /\ op' = [name |-> "worldTick",
              moved |-> {i \in 1..Len(objects) :
                            \/ objects'[i].screen_x # objects[i].screen_x
                            \/ objects'[i].screen_y # objects[i].screen_y}]
    /\ UNCHANGED <<gridVars, paused>>

\* GameManager::setPaused(paused), lines 532-535
SetPaused(b) ==
    /\ paused' = b
    /\ op' = [name |-> "setPaused"]
    /\ UNCHANGED <<gridVars, objects, renderer>>

\* GameManager::GameManager, lines 489-504: the Renderer's size
ConstructedRenderer ==
    [center_x |-> 0, center_y |-> 0,
     size_w |-> 4 * 5 * TILE_SIZE, size_h |-> 3 * 5 * TILE_SIZE, items |-> <<>>]

----------------------------------------------------------------------------
(* SpecFootprint: checkCollision of an entity of any footprint up to       *)
(* MaxSize x MaxSize, on a grid of (MaxTile + 1) x (MaxTile + 1) tiles.    *)
(* The constructor sets size_x = size_y = 1 (lines 132-133) and nothing    *)
(* in the source changes them; the footprint is drawn here as an input of  *)
(* the function.                                                           *)

\* Largest footprint extent.
MaxSize == 2
\* Largest tile coordinate of the grid of SpecFootprint.
MaxTile == 4

\* A map of (MaxTile + 1) x (MaxTile + 1) tiles: the two by two blocks at
\* (0, 0) and at (MaxTile - 1, MaxTile - 1) are passable, but that
\* (MaxTile, MaxTile - 1) has collision w; (bx, by) has collision v; the
\* tiles no record writes keep the collision resizeMapStorage gave them.
FootFile(bx, by, v, w) ==
    File(0, 0, <<TileRec(MaxTile, MaxTile, 0),
                 TileRec(MaxTile - 1, MaxTile - 1, 0),
                 TileRec(MaxTile - 1, MaxTile, 0),
                 TileRec(MaxTile, MaxTile - 1, w),
                 TileRec(0, 0, 0), TileRec(1, 0, 0),
                 TileRec(0, 1, 0), TileRec(1, 1, 0),
                 TileRec(bx, by, v)>>)

\* The offsets Player::runTick passes, and none.
Offsets == {<<0, 0>>, <<0, -1>>, <<1, 0>>, <<0, 1>>, <<-1, 0>>}

InitFootprint ==
    /\ \E bx \in 0..MaxTile, by \in 0..MaxTile, v \in {0, 1, 2}, w \in {0, 2} :
        LET g == LoadedStorage(<<>>, <<>>, FootFile(bx, by, v, w))
        IN  /\ tile = g.tile
            /\ collision = g.collision
    /\ spawn_x = 0
    /\ spawn_y = 0
    /\ current_map = 1
    /\ \E x \in {0, MaxTile - 1}, y \in {0, MaxTile - 1},
          sx \in 1..MaxSize, sy \in 1..MaxSize :
        objects = <<SetMapPos([NewGameObject EXCEPT !.size_x = sx, !.size_y = sy],
                              x, y, FALSE)>>
    /\ paused = FALSE
    /\ renderer = ConstructedRenderer
    /\ \E o \in Offsets : op = [name |-> "call", offset_x |-> o[1], offset_y |-> o[2]]
    /\ ncalls = 0
    /\ hist = NoHist
    /\ pending = NoFile

\* GameObject::checkCollision(offset_x, offset_y), lines 217-232
CheckCollisionCall ==
    /\ op.name = "call"
    /\ op' = [name |-> "checkCollision",
              offset_x |-> op.offset_x, offset_y |-> op.offset_y,
              ret |-> CheckCollision(objects[1], collision, op.offset_x, op.offset_y)]
    /\ UNCHANGED <<gridVars, worldVars, ncalls, hist, pending>>

NextFootprint == CheckCollisionCall

SpecFootprint == InitFootprint /\ [][NextFootprint]_vars

----------------------------------------------------------------------------
(* SpecCamera: a world of two Players and one plain GameObject, under      *)
(* setScreenPos, setPaused and world ticks. The constructor pushes Player  *)
(* 0 only (line 500, the second Player is commented out at line 501); the  *)
(* loop of runTick is over whatever the list holds, and the list is drawn  *)
(* here as its input.                                                      *)

\* Largest number of calls in one run of the world.
MaxWorldCalls == 3

CameraFile ==
    File(0, 0, <<TileRec(0, 0, 0), TileRec(1, 0, 0), TileRec(0, 1, 0), TileRec(1, 1, 1)>>)

\* Pixel positions an entity is put at by setScreenPos.
CameraPixels == {<<-1, -1>>, <<9, 9>>, <<-4, 1>>}

InitCamera ==
    /\ LET g == LoadedStorage(<<>>, <<>>, CameraFile)
       IN  /\ tile = g.tile
           /\ collision = g.collision
    /\ spawn_x = CameraFile.spawn_x
    /\ spawn_y = CameraFile.spawn_y
    /\ current_map = 1
    /\ \E t \in StartTicks :
        objects = <<NewPlayer(0, spawn_x, spawn_y, t),
                    NewPlayer(1, spawn_x, spawn_y, t),
                    NewGameObject>>
    /\ paused \in BOOLEAN
    /\ renderer = ConstructedRenderer
    /\ op = [name |-> "init"]
    /\ ncalls = 0
    /\ hist = NoHist
    /\ pending = NoFile

\* GameObject::setScreenPos(x, y, false) on one of the objects
CameraSetScreenPos ==
    /\ ncalls < MaxWorldCalls
    /\ \E i \in 1..Len(objects), p \in CameraPixels :
        objects' = [objects EXCEPT ![i] = SetScreenPos(@, p[1], p[2], FALSE)]
    /\ op' = [name |-> "setScreenPos"]
    /\ ncalls' = ncalls + 1
    /\ UNCHANGED <<gridVars, paused, renderer, hist, pending>>

CameraSetPaused ==
    /\ ncalls < MaxWorldCalls
    /\ \E b \in BOOLEAN : SetPaused(b)
    /\ ncalls' = ncalls + 1
    /\ UNCHANGED <<hist, pending>>

CameraTick ==
    /\ ncalls < MaxWorldCalls
    /\ \E delta \in 0..MaxDelta, in1 \in {{}, {"RIGHT"}}, in2 \in {{}, {"DOWN"}} :
        WorldTick(delta, in1, in2)
    /\ ncalls' = ncalls + 1
    /\ UNCHANGED <<hist, pending>>

NextCamera == CameraSetScreenPos \/ CameraSetPaused \/ CameraTick

SpecCamera == InitCamera /\ [][NextCamera]_vars

----------------------------------------------------------------------------
(* Claims about the footprint collision and the camera. *)

\* The tiles of the size_x by size_y rectangle anchored at (ax, ay).
Rectangle(ax, ay, size_x, size_y) ==
    {<<ax + dx, ay + dy>> : dx \in 0..(size_x - 1), dy \in 0..(size_y - 1)}

Blocking(cell) ==
    \/ ~InGrid(cell[1], cell[2])
    \/ collision[cell[1] + 1][cell[2] + 1] >= 1

\* C9 (SpecFootprint): checkCollision(offsetX, offsetY) returns the maximum
\* of getCollision over exactly the size_x by size_y rectangle anchored at
\* (map_x + offsetX, map_y + offsetY), a cell outside the grid counting 1;
\* a 2 x 2 footprint anchored at (3, 3) is blocked (result >= 1) exactly
\* when one of (3,3), (4,3), (3,4), (4,4) has collision >= 1 or is outside
\* the grid; the call changes neither the entity nor the grid.
FootprintCollision ==
    /\ [](op.name = "checkCollision" =>
            LET e == objects[1]
                ax == e.map_x + op.offset_x
                ay == e.map_y + op.offset_y
            IN  /\ op.ret = SetMax({ExpectedCollision(cell[1], cell[2]) :
                                        cell \in Rectangle(ax, ay, e.size_x, e.size_y)})
                /\ (e.size_x = 2 /\ e.size_y = 2 /\ ax = 3 /\ ay = 3) =>
                        ((op.ret >= 1) <=>
                            \E cell \in {<<3, 3>>, <<4, 3>>, <<3, 4>>, <<4, 4>>} :
                                Blocking(cell)))
    /\ [][op'.name = "checkCollision" =>
            (objects' = objects /\ tile' = tile /\ collision' = collision)]_vars

\* C9 witness: a 2 x 2 footprint anchored at (3, 3), all four tiles in the
\* grid, (3, 3) with collision 1 and (4, 3) with collision 2: the result is 2.
FootprintCollisionWitness ==
    /\ op.name = "checkCollision"
    /\ objects[1].size_x = 2
    /\ objects[1].size_y = 2
    /\ objects[1].map_x + op.offset_x = 3
    /\ objects[1].map_y + op.offset_y = 3
    /\ InGrid(4, 4)
    /\ collision[3 + 1][3 + 1] = 1
    /\ collision[4 + 1][3 + 1] = 2
    /\ op.ret = 2

\* C9 second witness: the same footprint on four passable tiles is not blocked.
FootprintFreeWitness ==
    /\ op.name = "checkCollision"
    /\ objects[1].size_x = 2
    /\ objects[1].size_y = 2
    /\ objects[1].map_x + op.offset_x = 3
    /\ objects[1].map_y + op.offset_y = 3
    /\ op.ret = 0

Anchors == {i \in 1..Len(objects) : objects[i].camera_center}

RECURSIVE SetSum(_, _)
SetSum(S, f) ==
    IF S = {} THEN 0
    ELSE LET i == CHOOSE j \in S : TRUE
         IN  f[i] + SetSum(S \ {i}, f)

CenterX == [i \in 1..Len(objects) |-> objects[i].screen_x + (TILE_SIZE * objects[i].size_x) \div 2]
CenterY == [i \in 1..Len(objects) |-> objects[i].screen_y + (TILE_SIZE * objects[i].size_y) \div 2]

\* The mean, truncated toward zero, of the values f gives the members of S.
TruncatedMean(S, f) ==
    LET sum == SetSum(S, f)
        n == Cardinality(S)
    IN  IF sum >= 0 THEN sum \div n ELSE -((-sum) \div n)

\* C10 (SpecCamera): after every world tick with at least one camera anchor,
\* the camera center given to the renderer is, per axis, the mean truncated
\* toward zero of the visual centers (visual position after the tick plus
\* TILE_SIZE * size / 2) of exactly the camera anchors; with anchor centers
\* (0, 0) and (10, 10) it is (5, 5).
CameraMean ==
    (op.name = "worldTick" /\ Anchors # {}) =>
        /\ renderer.center_x = TruncatedMean(Anchors, CenterX)
        /\ renderer.center_y = TruncatedMean(Anchors, CenterY)
        /\ ({<<CenterX[i], CenterY[i]>> : i \in Anchors} = {<<0, 0>>, <<10, 10>>}) =>
                (renderer.center_x = 5 /\ renderer.center_y = 5)

\* C10 witness: anchor centers (0, 0) and (10, 10), a third object that is
\* no anchor with another center, and the camera at (5, 5).
CameraMeanWitness ==
    /\ op.name = "worldTick"
    /\ Cardinality(Anchors) = 2
    /\ {<<CenterX[i], CenterY[i]>> : i \in Anchors} = {<<0, 0>>, <<10, 10>>}
    /\ \E i \in 1..Len(objects) : i \notin Anchors /\ CenterX[i] # 5
    /\ renderer.center_x = 5
    /\ renderer.center_y = 5

\* C10 second witness: an anchor moved in the tick, the anchors' centers
\* differ and their sum is negative and odd on the x axis.
CameraMeanMovedWitness ==
    /\ op.name = "worldTick"
    /\ op.moved # {}
    /\ SetSum(Anchors, CenterX) < 0
    /\ SetSum(Anchors, CenterX) % 2 = 1

----------------------------------------------------------------------------
(* SpecZoom: the world of SpecCamera with the two Players placed up to one *)
(* pixel more than the baseline viewport apart, under setScreenPos and     *)
(* world ticks.                                                            *)

\* Largest number of calls in one run of SpecZoom.
MaxZoomCalls == 3

\* One pixel more than the width and the height of the baseline viewport.
FarX == 4 * 5 * TILE_SIZE + 1
FarY == 3 * 5 * TILE_SIZE + 1

\* Pixel positions a Player is put at by setScreenPos.
ZoomPixels == {<<0, 0>>, <<FarX, 0>>, <<FarX, FarY>>}

\* History of the viewport: the largest width a world tick has set so far.
NoZoomHist == [max_w |-> 0]

InitZoom ==
    /\ LET g == LoadedStorage(<<>>, <<>>, CameraFile)
       IN  /\ tile = g.tile
           /\ collision = g.collision
    /\ spawn_x = CameraFile.spawn_x
    /\ spawn_y = CameraFile.spawn_y
    /\ current_map = 1
    /\ \E t \in StartTicks, p \in ZoomPixels, q \in ZoomPixels :
        objects = <<SetScreenPos(NewPlayer(0, spawn_x, spawn_y, t), p[1], p[2], FALSE),
                    SetScreenPos(NewPlayer(1, spawn_x, spawn_y, t), q[1], q[2], FALSE),
                    NewGameObject>>
    /\ paused = FALSE
    /\ renderer = ConstructedRenderer
    /\ op = [name |-> "init"]
    /\ ncalls = 0
    /\ hist = NoZoomHist
    /\ pending = NoFile

\* GameObject::setScreenPos(x, y, false) on one of the objects
ZoomSetScreenPos ==
    /\ ncalls < MaxZoomCalls
    /\ \E i \in 1..Len(objects), p \in ZoomPixels :
        objects' = [objects EXCEPT ![i] = SetScreenPos(@, p[1], p[2], FALSE)]
    /\ op' = [name |-> "setScreenPos"]
    /\ ncalls' = ncalls + 1
    /\ UNCHANGED <<gridVars, paused, renderer, hist, pending>>

\* GameManager::runTick(delta) with no input active
ZoomTick ==
    /\ ncalls < MaxZoomCalls
    /\ \E delta \in 0..MaxDelta : WorldTick(delta, {}, {})
    /\ ncalls' = ncalls + 1
    /\ hist' = [max_w |-> Max(hist.max_w, renderer'.size_w)]
    /\ UNCHANGED pending

NextZoom == ZoomSetScreenPos \/ ZoomTick

SpecZoom == InitZoom /\ [][NextZoom]_vars

----------------------------------------------------------------------------
(* Claims about the viewport and the pause. *)

SetMin(S) == CHOOSE m \in S : \A n \in S : m <= n

\* The extent of the bounding box of the anchors' centers on each axis.
ExtentX ==
    SetMax({CenterX[i] : i \in Anchors}) - SetMin({CenterX[i] : i \in Anchors})
ExtentY ==
    SetMax({CenterY[i] : i \in Anchors}) - SetMin({CenterY[i] : i \in Anchors})

\* The least multiplier >= 5 whose viewport is at least ex wide and ey high.
LeastCovering(ex, ey) ==
    CHOOSE m \in 5..(5 + ex + ey) :
        /\ 4 * m * TILE_SIZE >= ex /\ 3 * m * TILE_SIZE >= ey
        /\ \A k \in 5..(m - 1) :
            ~(4 * k * TILE_SIZE >= ex /\ 3 * k * TILE_SIZE >= ey)

\* C11 as stated (SpecZoom): after every world tick the viewport size is
\* 4 * m * TILE_SIZE by 3 * m * TILE_SIZE with m the least multiplier >= 5
\* for which the viewport is at least the extent of the bounding box of the
\* anchors' centers on both axes.
ViewportFraming ==
    (op.name = "worldTick" /\ Anchors # {}) =>
        /\ renderer.size_w = 4 * LeastCovering(ExtentX, ExtentY) * TILE_SIZE
        /\ renderer.size_h = 3 * LeastCovering(ExtentX, ExtentY) * TILE_SIZE
        /\ renderer.size_w >= ExtentX
        /\ renderer.size_h >= ExtentY

\* C12 as stated (SpecZoom): the viewport a world tick sets is never smaller
\* than the viewport an earlier tick of the session set.
ZoomMonotone ==
    [][op'.name = "worldTick" => renderer'.size_w >= renderer.size_w]_vars

\* C12 amended (SpecZoom): every world tick computes the multiplier anew
\* from the baseline 5 and from the anchors' centers of that tick; when the
\* anchors' centers coincide the tick sets the baseline viewport, whatever
\* an earlier tick had set.
ZoomRecomputed ==
    (op.name = "worldTick" /\ Anchors # {} /\ ExtentX = 0 /\ ExtentY = 0) =>
        /\ renderer.size_w = 4 * 5 * TILE_SIZE
        /\ renderer.size_h = 3 * 5 * TILE_SIZE

\* C12 witness: an earlier tick set a viewport wider than the baseline; the
\* anchors now coincide and this tick set the baseline viewport.
ZoomRecomputedWitness ==
    /\ op.name = "worldTick"
    /\ hist.max_w > 4 * 5 * TILE_SIZE
    /\ Cardinality(Anchors) = 2
    /\ ExtentX = 0
    /\ ExtentY = 0
    /\ renderer.size_w = 4 * 5 * TILE_SIZE

\* The items the Renderer is given for the grid and the objects as they are.
ItemsOfWorld ==
    MapItems(tile, 1) \o [i \in 1..Len(objects) |-> ObjectItem(objects[i])]

\* C13 (SpecCamera): while the world is paused a world tick, whatever its
\* delta and input, leaves every field of every entity unchanged (logical
\* and visual position, frame, direction, the walker's clock, target and
\* deadlines); the grid and every entity are still rendered, and the camera
\* center and the viewport size are still set.
PausedTick ==
    /\ []((op.name = "worldTick" /\ paused) =>
            /\ renderer.items = ItemsOfWorld
            /\ Len(renderer.items) = Width * Height + Len(objects)
            /\ renderer.center_x = TruncatedMean(Anchors, CenterX)
            /\ renderer.center_y = TruncatedMean(Anchors, CenterY)
            /\ renderer.size_w >= 4 * 5 * TILE_SIZE
            /\ renderer.size_h >= 3 * 5 * TILE_SIZE)
    /\ [][(op'.name = "worldTick" /\ paused) =>
            (objects' = objects /\ UNCHANGED gridVars)]_vars

\* C13 witness: a paused world tick with a Player on its way to its target.
PausedTickWitness ==
    /\ op.name = "worldTick"
    /\ paused
    /\ \E i \in 1..Len(objects) :
        /\ objects[i].walker
        /\ objects[i].screen_x # objects[i].dest_x
    /\ Len(renderer.items) = Width * Height + Len(objects)

----------------------------------------------------------------------------
(* Claims about the walker's deadlines. *)

\* C14 as stated (SpecWalk): whatever the walker's clock and deadlines and
\* whatever the delta, the first runTick after a setDestination performs a
\* position step, which takes the visual position one pixel toward the new
\* target on every axis that is not at it.
FirstTickSteps ==
    [][(op.name = "setDestination" /\ op'.name = "runTick") =>
            /\ op'.stepped
            /\ objects'[1].screen_x = objects[1].screen_x + Sgn(op.x - objects[1].screen_x)
            /\ objects'[1].screen_y = objects[1].screen_y + Sgn(op.y - objects[1].screen_y)]_vars

\* C15 as stated (SpecWalk): runTick(delta) performs a position step exactly
\* when the clock, after delta is added, is at or past the movement
\* deadline, and gives an animation signal in such a step exactly when the
\* clock is at or past the animation deadline.
StepAtDeadline ==
    [][op'.name = "runTick" =>
            /\ op'.stepped <=> (objects'[1].tick >= objects[1].movement_deadline)
            /\ op'.stepped =>
                ((op'.signal # "none") <=>
                    (objects'[1].tick >= objects[1].animation_deadline))]_vars

----------------------------------------------------------------------------
(* SpecPlay: the constructed world, one Player at the spawn of its map,    *)
(* under world ticks with every delta and every set of active directions.  *)
(* SpecStride: the same with every delta at least 1.                       *)

\* Largest clock value of the Player's walker.
MaxPlayTick == 13

\* The map of the Player's world: a row of four passable tiles, a passable
\* tile and a blocking one below its first two, and two tiles no record
\* writes.
PlayFile ==
    File(0, 0, <<TileRec(0, 0, 0), TileRec(1, 0, 0), TileRec(2, 0, 0), TileRec(3, 0, 0),
                 TileRec(0, 1, 0), TileRec(1, 1, 1)>>)

\* The sets of directions whose input may be active in one tick.
PlayInputs == SUBSET Dirs

\* lines 467-485: the number of active directions whose checkCollision is
\* not clear, each checked on the entity as the blocks before it left it
RECURSIVE RefusedMoves(_, _, _, _)
RefusedMoves(e, c, dirs, active) ==
    IF dirs = <<>>
    THEN 0
    ELSE LET d == Head(dirs)
             o == DirOffset(d)
             refused == d \in active /\ CheckCollision(e, c, o[1], o[2]) >= 1
         IN  (IF refused THEN 1 ELSE 0)
             + RefusedMoves(IF d \in active THEN PlayerMove(e, c, d) ELSE e,
                            c, Tail(dirs), active)

\* History of the Player's last tick: its frame when the input was polled
\* (after GameObject::runTick, line 462), whether its visual position was
\* then TILE_SIZE times its logical position, whether it was at its target,
\* whether the input of the tick changed the Player (a move was issued) and
\* how many active directions were refused.
NoPlayHist ==
    [frame |-> 0, settled |-> TRUE, arrived |-> TRUE, issued |-> FALSE, refused |-> 0]

PlayHistAfter(e, c, delta, active) ==
    LET e0 == ObjectRunTick(e, delta)
    IN  [frame |-> e0.current_frame,
         settled |-> /\ e0.screen_x = TILE_SIZE * e0.map_x
                     /\ e0.screen_y = TILE_SIZE * e0.map_y,
         arrived |-> AtTarget(e0),
         issued |-> PlayerRunTick(e, c, delta, active) # e0,
         refused |-> IF e0.current_frame = 0 \/ e0.current_frame = e0.stop_frame
                     THEN RefusedMoves(e0, c, <<"UP", "RIGHT", "DOWN", "LEFT">>, active)
                     ELSE 0]

\* GameManager::GameManager, lines 489-504: the map loaded, Player 0 made
InitPlay ==
    /\ LET g == LoadedStorage(<<>>, <<>>, PlayFile)
       IN  /\ tile = g.tile
           /\ collision = g.collision
    /\ spawn_x = PlayFile.spawn_x
    /\ spawn_y = PlayFile.spawn_y
    /\ current_map = 1
    /\ \E t \in StartTicks : objects = <<NewPlayer(0, spawn_x, spawn_y, t)>>
    /\ paused = FALSE
    /\ renderer = ConstructedRenderer
    /\ op = [name |-> "init"]
    /\ ncalls = 0
    /\ hist = NoPlayHist
    /\ pending = NoFile

\* GameManager::runTick(delta) with the directions of active held by player 1
PlayTick(delta) ==
    /\ objects[1].tick + delta <= MaxPlayTick
    /\ \E active \in PlayInputs :
        /\ WorldTick(delta, active, {})
        /\ hist' = PlayHistAfter(objects[1], collision, delta, active)
    /\ UNCHANGED <<ncalls, pending>>

\* A world tick in which the clock moves on.
PlayTickOn == \E delta \in 1..MaxDelta : PlayTick(delta)

\* A world tick with delta 0.
PlayTickZero == PlayTick(0)

NextPlay == PlayTickOn \/ PlayTickZero

SpecPlay == InitPlay /\ [][NextPlay]_vars

NextStride == PlayTickOn

SpecStride == InitPlay /\ [][NextStride]_vars

----------------------------------------------------------------------------
(* Claims about the Player. *)

\* C16 (SpecPlay): on a grid that does not change, a Player that starts on
\* in-grid tiles of collision < 1 is, after any sequence of world ticks
\* with any set of directions active at once, still on in-grid tiles of
\* collision < 1 at its logical position.
PlayerContained ==
    \A i \in 1..Len(objects) :
        \A cell \in Rectangle(objects[i].map_x, objects[i].map_y,
                              objects[i].size_x, objects[i].size_y) :
            /\ InGrid(cell[1], cell[2])
            /\ collision[cell[1] + 1][cell[2] + 1] < 1

\* C16 witness: a tick in which one move was issued and another active
\* direction was refused, which left the Player on tile (1, 0).
PlayerContainedWitness ==
    /\ op.name = "worldTick"
    /\ hist.issued
    /\ hist.refused >= 1
    /\ objects[1].map_x = 1
    /\ objects[1].map_y = 0

\* C19 (SpecStride): with TILE_SIZE >= 2 and every delta >= 1, in every tick
\* in which the Player issues a move, its visual position when the input is
\* polled is TILE_SIZE times its logical position; and whenever the input
\* is polled while the Player is not at its target, its frame is neither 0
\* nor stop_frame.
MoveOnlyWhenSettled ==
    (TILE_SIZE >= 2 /\ op.name = "worldTick") =>
        /\ hist.issued => hist.settled
        /\ ~hist.arrived => hist.frame \notin {0, objects[1].stop_frame}

\* C19 witness: a move issued from stop_frame by a Player that an earlier
\* animated move had taken away from the spawn tile.
MoveOnlyWhenSettledWitness ==
    /\ op.name = "worldTick"
    /\ hist.issued
    /\ hist.settled
    /\ hist.frame = objects[1].stop_frame
    /\ objects[1].screen_x # TILE_SIZE * spawn_x

\* C20 (SpecPlay): for a Player (loop_frame 1, end_frame 4, stop_frame 5,
\* texture lists of stop_frame + 1 textures), after any ticks and inputs,
\* 0 <= current_frame <= stop_frame, and the frame render uses is an index
\* of the texture lists.
FrameInRange ==
    /\ \A i \in 1..Len(objects) :
        objects[i].kind = "player" =>
            /\ 0 <= objects[i].current_frame
            /\ objects[i].current_frame <= objects[i].stop_frame
            /\ objects[i].current_frame < objects[i].ntextures
    /\ op.name = "worldTick" =>
        \A k \in 1..Len(objects) :
            LET item == renderer.items[Width * Height + k]
            IN  item.texture.frame \in 0..(objects[k].ntextures - 1)

\* C20 witness: the Player rendered with frame stop_frame, the last index.
FrameInRangeWitness ==
    /\ op.name = "worldTick"
    /\ objects[1].current_frame = objects[1].stop_frame
    /\ renderer.items[Width * Height + 1].texture.frame = objects[1].ntextures - 1

----------------------------------------------------------------------------
(* Claims about object records and the absolute resize. *)

\* The sequence without its k-th element.
RemoveAt(seq, k) ==
    [i \in 1..(Len(seq) - 1) |-> IF i < k THEN seq[i] ELSE seq[i + 1]]

\* C17 as stated (SpecLoad): a record of a map file that is not a tile
\* record has no effect on the grid: the tile and the collision storage
\* loadMap leaves are those it leaves for the file without that record.
ObjectRecordNoEffect ==
    op.name = "loadMap" =>
        \A k \in 1..Len(op.file.recs) :
            Extension(op.file.recs[k].path) # ".png" =>
                LET without == File(op.file.spawn_x, op.file.spawn_y,
                                    RemoveAt(op.file.recs, k))
                    g == LoadedStorage(<<>>, <<>>, without)
                IN  /\ tile = g.tile
                    /\ collision = g.collision

\* C18 as stated (SpecGrid): after resizeMapStorage(x, y, true) the storage
\* has x + 1 columns of y + 1 cells, and every cell holds the missing
\* texture and collision 1.
AbsoluteResets ==
    (op.name = "resize" /\ op.absolute) =>
        /\ Len(tile) = op.x + 1
        /\ Len(collision) = op.x + 1
        /\ \A i \in 1..(op.x + 1) :
            /\ tile[i] = [j \in 1..(op.y + 1) |-> MissingTexture]
            /\ collision[i] = [j \in 1..(op.y + 1) |-> 1]

====
